---------------------------- MODULE Spec2Model ----------------------------
(***************************************************************************)
(* A model of the football club data scripts:                              *)
(*   _generate_clubs.py          the scraping pipeline (main) and its      *)
(*                               extractors, slugify and build_aliases     *)
(*   _create_logo_assignment.py  normalise, tokens and the logo matcher    *)
(*                                                                         *)
(* A Python str is a sequence of one-character strings: "a b" is           *)
(* <<"a", " ", "b">>.  The two non-ASCII code points that matter to the    *)
(* code are written "U+0301" (combining acute accent) and "U+2019" (right  *)
(* single quotation mark).  None is the empty sequence: the code tests its *)
(* optional values only for truth, where None, "" and () are alike.        *)
(***************************************************************************)
EXTENDS Integers, Sequences, FiniteSets, TLC

VARIABLES
    \* _generate_clubs.py: main()
    pc,          \* position in main: "league" | "club" | "ground" | "final" | "done" | "aborted"
    li,          \* index into LEAGUES of the league being processed
    club_links,  \* club_links of the current league
    ci,          \* index into club_links of the club being processed
    ground,      \* result of find_home_ground_link for the current club
    all_clubs,   \* the dict all_clubs: its values in insertion order
    out,         \* the last line printed: [kind, li, ci]
    sinceFetch,  \* what the run did last: "none" | "fetched" (a request) | "slept"
    lastOk,      \* history: id -> the record of the last club with that id that printed its tick
    written,     \* contents of OUT_FILE (None while not written)
    \* _generate_clubs.py: build_aliases
    aname, aret, apc,
    \* _generate_clubs.py: scrape_club_links_from_league on one document
    doc, links, xpc,
    \* _generate_clubs.py: find_home_ground_link on one document
    page, gret, ipc,
    \* _create_logo_assignment.py: the script
    files,       \* the image files under LOGO_ROOT, in iterdir() order
    clubs_json,  \* contents of CLUBS_JSON
    logos,       \* the list logos
    clubs,       \* the list clubs
    k,           \* number of clubs the matching loop has been through
    mpc,         \* position in the script: "load" | "match" | "done"
    matched, missing,
    \* normalise and safe_name applied twice
    arg,         \* the argument
    fn,          \* the function: "normalise" | "safe_name"
    once,        \* fn(text)
    twice,       \* fn(fn(text))
    npc          \* "call" | "again" | "done"

pipeVars   == <<pc, li, club_links, ci, ground, all_clubs, out, sinceFetch, lastOk, written>>
aliasVars  == <<aname, aret, apc>>
leagueVars == <<doc, links, xpc>>
infoVars   == <<page, gret, ipc>>
matchVars  == <<files, clubs_json, logos, clubs, k, mpc, matched, missing>>
normVars   == <<arg, fn, once, twice, npc>>
vars       == <<pipeVars, aliasVars, leagueVars, infoVars, matchVars, normVars>>

None == <<>>

-----------------------------------------------------------------------------
(* Python str operations, on sequences of characters *)

\* the printable ASCII characters, chr(32) .. chr(126), in code point order
\* (the double quote, the backslash and the backtick are written "U+0022",
\* "U+005C" and "U+0060")
PrintableAscii ==
    <<
       " ", "!", "U+0022", "#", "$", "%", "&", "'", "(", ")", "*", "+", ",", "-", ".", "/",
       "0", "1", "2", "3", "4", "5", "6", "7", "8", "9", ":", ";", "<", "=", ">", "?",
       "@", "A", "B", "C", "D", "E", "F", "G", "H", "I", "J", "K", "L", "M", "N", "O",
       "P", "Q", "R", "S", "T", "U", "V", "W", "X", "Y", "Z", "[", "U+005C", "]", "^", "_",
       "U+0060", "a", "b", "c", "d", "e", "f", "g", "h", "i", "j", "k", "l", "m", "n", "o",
       "p", "q", "r", "s", "t", "u", "v", "w", "x", "y", "z", "{", "|", "}", "~"
    >>

OrdTable == [c \in {PrintableAscii[i] : i \in DOMAIN PrintableAscii} |->
                CHOOSE i \in DOMAIN PrintableAscii : PrintableAscii[i] = c]

\* ord(c): the code point of a character
Ord(c) ==
    CASE c = "U+00E9" -> 233
      [] c = "U+0301" -> 769
      [] c = "U+2019" -> 8217
      [] c = "U+0009" -> 9
      [] c = "U+00A0" -> 160
      [] OTHER -> 31 + OrdTable[c]

\* str.lower() of one character
LowerChar(c) ==
    CASE c = "U+00E9" -> c
      [] c = "U+0301" -> c
      [] c = "U+2019" -> c
      [] c = "U+0009" -> c
      [] c = "U+00A0" -> c
      [] OTHER -> IF Ord(c) >= 65 /\ Ord(c) <= 90 THEN PrintableAscii[OrdTable[c] + 32] ELSE c

IsAscii(c) == Ord(c) < 128

IsAsciiLowerOrDigit(c) == (Ord(c) >= 97 /\ Ord(c) <= 122) \/ (Ord(c) >= 48 /\ Ord(c) <= 57)

\* \w of the re module on str patterns: Unicode letters, digits and "_"
IsWord(c) ==
    \/ IsAsciiLowerOrDigit(c)
    \/ (Ord(c) >= 65 /\ Ord(c) <= 90)
    \/ c = "_"
    \/ c = "U+00E9"

\* unicodedata.normalize("NFKD", c) of one character
NFKDChar(c) ==
    IF c = "U+00E9" THEN <<"e", "U+0301">>
    ELSE IF c = "U+00A0" THEN <<" ">>
    ELSE <<c>>

\* unicodedata.normalize("NFKD", s)
RECURSIVE NFKD(_)
NFKD(s) == IF s = <<>> THEN <<>> ELSE NFKDChar(Head(s)) \o NFKD(Tail(s))

Lower(s) == [i \in 1..Len(s) |-> LowerChar(s[i])]

StartsWith(s, p) == Len(p) <= Len(s) /\ SubSeq(s, 1, Len(p)) = p

\* p in s
Contains(s, p) == \E i \in 0..(Len(s) - Len(p)) : SubSeq(s, i + 1, i + Len(p)) = p

\* s.replace(old, new), old non-empty: non-overlapping occurrences, left to right
RECURSIVE Replace(_, _, _)
Replace(s, old, new) ==
    IF s = <<>> THEN <<>>
    ELSE IF StartsWith(s, old) THEN new \o Replace(SubSeq(s, Len(old) + 1, Len(s)), old, new)
    ELSE <<Head(s)>> \o Replace(Tail(s), old, new)

\* s.lstrip(chars), chars a set of characters
RECURSIVE LStrip(_, _)
LStrip(s, chars) == IF s # <<>> /\ Head(s) \in chars THEN LStrip(Tail(s), chars) ELSE s

\* s.rstrip(chars)
RECURSIVE RStrip(_, _)
RStrip(s, chars) ==
    IF s # <<>> /\ s[Len(s)] \in chars THEN RStrip(SubSeq(s, 1, Len(s) - 1), chars) ELSE s

\* the whitespace of the model's characters
Whitespace == {" ", "U+0009", "U+00A0"}

\* \s of the re module
IsSpace(c) == c \in Whitespace

\* s.strip()
Strip(s) == RStrip(LStrip(s, Whitespace), Whitespace)

\* s.strip("_")
StripUnderscore(s) == RStrip(LStrip(s, {"_"}), {"_"})

\* re.sub(r"\s+", "_", s)
RECURSIVE SpacesToUnderscore(_)
SpacesToUnderscore(s) ==
    IF s = <<>> THEN <<>>
    ELSE IF IsSpace(Head(s)) THEN <<"_">> \o SpacesToUnderscore(LStrip(s, Whitespace))
    ELSE <<Head(s)>> \o SpacesToUnderscore(Tail(s))

\* s.split(sep) for a one-character sep
RECURSIVE SplitAcc(_, _, _)
SplitAcc(s, sep, cur) ==
    IF s = <<>> THEN <<cur>>
    ELSE IF Head(s) = sep THEN <<cur>> \o SplitAcc(Tail(s), sep, <<>>)
    ELSE SplitAcc(Tail(s), sep, Append(cur, Head(s)))

Split(s, sep) == SplitAcc(s, sep, <<>>)

\* sep.join(parts)
RECURSIVE Join(_, _)
Join(parts, sep) ==
    IF parts = <<>> THEN <<>>
    ELSE IF Len(parts) = 1 THEN parts[1]
    ELSE parts[1] \o sep \o Join(Tail(parts), sep)

\* a < b on str: lexicographic by code point
RECURSIVE StrLess(_, _)
StrLess(a, b) ==
    IF b = <<>> THEN FALSE
    ELSE IF a = <<>> THEN TRUE
    ELSE IF Head(a) # Head(b) THEN Ord(Head(a)) < Ord(Head(b))
    ELSE StrLess(Tail(a), Tail(b))

\* sorted(S) for a set of str
RECURSIVE SortedStrings(_)
SortedStrings(S) ==
    IF S = {} THEN <<>>
    ELSE LET m == CHOOSE x \in S : \A y \in S \ {x} : StrLess(x, y)
         IN  <<m>> \o SortedStrings(S \ {m})

Range(s) == {s[i] : i \in 1..Len(s)}

-----------------------------------------------------------------------------
(* _create_logo_assignment.py: normalise, tokens *)

STOPWORDS ==
    { <<"f", "c">>, <<"f">>, <<"c">>, <<"a", "f", "c">>, <<"t", "h", "e">>,
      <<"c", "i", "t", "y">>, <<"t", "o", "w", "n">>,
      <<"u", "n", "i", "t", "e", "d">>, <<"u", "t", "d">>,
      <<"f", "o", "o", "t", "b", "a", "l", "l">>, <<"c", "l", "u", "b">> }

IsWordOrSpace(c) == IsWord(c) \/ IsSpace(c)

\* normalise with strip("_") applied before the whitespace is replaced
normaliseStripFirst(text) ==
    LET t1 == NFKD(text)
        t2 == SelectSeq(t1, IsAscii)
        t3 == Lower(t2)
        t4 == SelectSeq(t3, IsWordOrSpace)
        t5 == StripUnderscore(t4)
    IN  SpacesToUnderscore(t5)

normalise(text) ==
    LET t1 == NFKD(text)
        t2 == SelectSeq(t1, IsAscii)
        t3 == Lower(t2)
        t4 == SelectSeq(t3, IsWordOrSpace)
        t5 == SpacesToUnderscore(t4)
    IN  StripUnderscore(t5)

IsToken(t) == t # <<>> /\ t \notin STOPWORDS

tokens(text) == SelectSeq(Split(normalise(text), "_"), IsToken)

-----------------------------------------------------------------------------
(* _generate_clubs.py: slugify, build_aliases *)

\* index of the first ")" of s at or after position i, 0 when there is none
RECURSIVE FindClose(_, _)
FindClose(s, i) ==
    IF i > Len(s) THEN 0 ELSE IF s[i] = ")" THEN i ELSE FindClose(s, i + 1)

\* first position at or after i that holds no whitespace (Len(s) + 1 at the end)
RECURSIVE SkipSpaces(_, _)
SkipSpaces(s, i) ==
    IF i <= Len(s) /\ IsSpace(s[i]) THEN SkipSpaces(s, i + 1) ELSE i

\* re.sub(r"\s*\(.*?\)\s*", " ", s) from position i on
RECURSIVE RemoveBracketed(_, _)
RemoveBracketed(s, i) ==
    IF i > Len(s) THEN <<>>
    ELSE LET j == SkipSpaces(s, i)
             close == IF j <= Len(s) /\ s[j] = "(" THEN FindClose(s, j + 1) ELSE 0
         IN  IF close # 0
             THEN <<" ">> \o RemoveBracketed(s, SkipSpaces(s, close + 1))
             ELSE <<s[i]>> \o RemoveBracketed(s, i + 1)

SlugKeep(c) == IsWord(c) \/ IsSpace(c) \/ c = "-"

slugify(name) ==
    LET s1 == Lower(name)
        s2 == RemoveBracketed(s1, 1)
        s3 == Replace(s2, <<"U+2019">>, <<"'">>)
        s4 == SelectSeq(s3, SlugKeep)
        s5 == SpacesToUnderscore(s4)
    IN  StripUnderscore(s5)

\* re.findall(r"[a-z0-9]+", s)
RECURSIVE WordsAcc(_, _)
WordsAcc(s, cur) ==
    IF s = <<>> THEN (IF cur = <<>> THEN <<>> ELSE <<cur>>)
    ELSE IF IsAsciiLowerOrDigit(Head(s)) THEN WordsAcc(Tail(s), Append(cur, Head(s)))
    ELSE (IF cur = <<>> THEN <<>> ELSE <<cur>>) \o WordsAcc(Tail(s), <<>>)

FindWords(s) == WordsAcc(s, <<>>)

\* "".join(w[0] for w in words)
Initials(words) == [i \in 1..Len(words) |-> words[i][1]]

AliasBase(name) == Replace(Lower(name), <<".">>, <<>>)

\* the set the code holds before "remove duplicates / empties"
AliasCandidates(name) ==
    LET base  == AliasBase(name)
        words == FindWords(base)
    IN  {base}
        \cup {Strip(Replace(base, <<" ", "f", "o", "o", "t", "b", "a", "l", "l", " ", "c", "l", "u", "b">>, <<>>))}
        \cup {Strip(Replace(Replace(base, <<" ", "f", ".", "c", ".">>, <<>>), <<" ", "f", "c">>, <<>>))}
        \cup (IF Len(words) >= 2 THEN {Initials(words)} ELSE {})
        \cup {Replace(base, <<"&">>, <<"a", "n", "d">>)}

\* build_aliases without its "remove duplicates / empties" line
AliasSetKeepEmpties(name) == AliasCandidates(name)

AliasSet(name) == {Strip(a) : a \in {b \in AliasCandidates(name) : Strip(b) # <<>>}}

build_aliases(name) == SortedStrings(AliasSet(name))

-----------------------------------------------------------------------------
(* Each script runs on its own: while one runs, the state of the others is idle *)

-----------------------------------------------------------------------------
(* _assign_club_badges.py: safe_name *)

\* s without its leading characters outside [a-z0-9]
RECURSIVE DropNonAlnum(_)
DropNonAlnum(s) ==
    IF s # <<>> /\ ~IsAsciiLowerOrDigit(Head(s)) THEN DropNonAlnum(Tail(s)) ELSE s

\* re.sub(r"[^a-z0-9]+", "_", s)
RECURSIVE NonAlnumToUnderscore(_)
NonAlnumToUnderscore(s) ==
    IF s = <<>> THEN <<>>
    ELSE IF ~IsAsciiLowerOrDigit(Head(s)) THEN <<"_">> \o NonAlnumToUnderscore(DropNonAlnum(s))
    ELSE <<Head(s)>> \o NonAlnumToUnderscore(Tail(s))

safe_name(text) ==
    LET t1 == NFKD(text)
        t2 == SelectSeq(t1, IsAscii)
        t3 == Lower(t2)
        t4 == NonAlnumToUnderscore(t3)
    IN  StripUnderscore(t4)

-----------------------------------------------------------------------------

Line(kind, l, c) == [kind |-> kind, li |-> l, ci |-> c]

PipeIdle ==
    /\ pc = "idle" /\ li = 0 /\ club_links = <<>> /\ ci = 0 /\ ground = None
    /\ all_clubs = <<>> /\ out = Line("none", 0, 0) /\ sinceFetch = "none"
    /\ lastOk = {} /\ written = None

AliasIdle == aname = <<>> /\ aret = None /\ apc = "idle"

LeagueIdle == doc = <<>> /\ links = None /\ xpc = "idle"

InfoIdle == page = None /\ gret = None /\ ipc = "idle"

MatchIdle ==
    /\ files = <<>> /\ clubs_json = <<>>
    /\ logos = <<>> /\ clubs = <<>> /\ k = 0 /\ mpc = "idle"
    /\ matched = 0 /\ missing = 0

NormIdle == arg = <<>> /\ fn = "none" /\ once = None /\ twice = None /\ npc = "idle"

\* all str of at most n characters over the alphabet A
StringsUpTo(A, n) == UNION {[1..m -> A] : m \in 0..n}

-----------------------------------------------------------------------------
(* build_aliases applied to club names *)

MaxNameLen == 4

AliasAlphabet == {"a", "F", "c", " ", ".", "&"}

SampleNames ==
    { <<"a", "b", " ", "F", "o", "o", "t", "b", "a", "l", "l", " ", "C", "l", "u", "b">>,
      <<"A", " ", "&", " ", "b", " ", "F", ".", "C", ".">>,
      <<"U+00E9", "a", " ", "F", "C">> }

\* a club name is link text taken with get_text(" ", strip=True) and checked
\* to be non-empty (lines 160-162): no outer whitespace, at least one character
ClubNameInputs ==
    {n \in StringsUpTo(AliasAlphabet, MaxNameLen) \cup SampleNames : n # <<>> /\ Strip(n) = n}

AliasInit ==
    /\ aname \in ClubNameInputs /\ aret = None /\ apc = "call"
    /\ PipeIdle /\ LeagueIdle /\ InfoIdle /\ MatchIdle /\ NormIdle

CallBuildAliases ==
    /\ apc = "call"
    /\ aret' = build_aliases(aname)
    /\ apc' = "done"
    /\ UNCHANGED <<aname, pipeVars, leagueVars, infoVars, matchVars, normVars>>

AliasNext == CallBuildAliases

SpecAliases == AliasInit /\ [][AliasNext]_vars

\* the list is strictly increasing in str order (sorted, no duplicates)
StrictlySorted(l) == \A i \in 1..(Len(l) - 1) : StrLess(l[i], l[i + 1])

-----------------------------------------------------------------------------
(* _generate_clubs.py: links *)

WIKI ==
    <<"h", "t", "t", "p", "s", ":", "/", "/", "e", "n", ".", "w", "i", "k", "i",
      "p", "e", "d", "i", "a", ".", "o", "r", "g">>

WikiPath == <<"/", "w", "i", "k", "i", "/">>

\* normalize_wiki_href, for an href that is absolute ("http...") or an
\* absolute path ("/..."), where urljoin(WIKI, href) is WIKI + href
normalize_wiki_href(href) ==
    IF StartsWith(href, <<"h", "t", "t", "p">>) THEN href ELSE WIKI \o href

is_wiki_article_link(href) ==
    IF href = <<>> THEN FALSE
    ELSE IF ~StartsWith(href, WikiPath) THEN FALSE
    ELSE IF Contains(href, <<"r", "e", "d", "l", "i", "n", "k", "=", "1">>) THEN FALSE
    ELSE IF \/ StartsWith(href, WikiPath \o <<"F", "i", "l", "e", ":">>)
            \/ StartsWith(href, WikiPath \o <<"H", "e", "l", "p", ":">>)
            \/ StartsWith(href, WikiPath \o <<"S", "p", "e", "c", "i", "a", "l", ":">>)
    THEN FALSE
    ELSE TRUE

-----------------------------------------------------------------------------
(* _generate_clubs.py: scrape_club_links_from_league, on a parsed document *)
(*                                                                         *)
(* A document is the sequence of its <table> elements.  A table is         *)
(* [class, rows]: rows are its <tr> elements in order, a row is the        *)
(* sequence of its <th>/<td> cells, a cell is [tag, text, a] where text is *)
(* get_text(" ", strip=True) of the cell and a is its first <a href>, a    *)
(* pair (href, text), or None.                                             *)

Cell(tag, text, a) == [tag |-> tag, text |-> text, a |-> a]

\* an <a href=...> element
Anchor(href, text) == <<href, text>>

HrefOf(a) == a[1]

TextOf(a) == a[2]

IsTh(cell) == cell.tag = "th"

CellTexts(cells) == [i \in 1..Len(cells) |-> Lower(cells[i].text)]

\* table.find_all("th"), in document order
RECURSIVE AllTh(_)
AllTh(rows) == IF rows = <<>> THEN <<>> ELSE SelectSeq(Head(rows), IsTh) \o AllTh(Tail(rows))

\* class_=lambda c: c and "wikitable" in c
IsWikitable(table) ==
    table.class # <<>> /\ Contains(table.class, <<"w", "i", "k", "i", "t", "a", "b", "l", "e">>)

Pos == <<"p", "o", "s">>
Team == <<"t", "e", "a", "m">>
Club == <<"c", "l", "u", "b">>

\* the first i (from 0) with "team" or "club" in col_names[i]; -1 stands for
\* team_idx = None
RECURSIVE TeamIdx(_, _)
TeamIdx(col_names, i) ==
    IF i >= Len(col_names) THEN -1
    ELSE IF Contains(col_names[i + 1], Team) \/ Contains(col_names[i + 1], Club) THEN i
    ELSE TeamIdx(col_names, i + 1)

\* the candidates of a row without the test on the link text
RowCandidatesAnyText(tds, team_idx) ==
    IF Len(tds) <= team_idx THEN <<>>
    ELSE LET a == tds[team_idx + 1].a
         IN  IF a = None THEN <<>>
             ELSE IF ~is_wiki_article_link(HrefOf(a)) THEN <<>>
             ELSE << <<TextOf(a), normalize_wiki_href(HrefOf(a))>> >>

\* one row of "for tr in table.find_all("tr")[1:]": the pairs it appends
RowCandidates(tds, team_idx) ==
    IF Len(tds) <= team_idx THEN <<>>
    ELSE LET a == tds[team_idx + 1].a
         IN  IF a = None THEN <<>>
             ELSE IF ~is_wiki_article_link(HrefOf(a)) THEN <<>>
             ELSE IF TextOf(a) = <<>> THEN <<>>
             ELSE << <<TextOf(a), normalize_wiki_href(HrefOf(a))>> >>

RECURSIVE RowsCandidates(_, _)
RowsCandidates(rows, team_idx) ==
    IF rows = <<>> THEN <<>>
    ELSE RowCandidates(Head(rows), team_idx) \o RowsCandidates(Tail(rows), team_idx)

\* one table of "for table in tables": the pairs it appends
TableCandidates(table) ==
    LET header_text == Join(CellTexts(AllTh(table.rows)), <<" ">>)
    IN  IF ~Contains(header_text, Pos)
           \/ (~Contains(header_text, Team) /\ ~Contains(header_text, Club))
        THEN <<>>
        ELSE IF table.rows = <<>> THEN <<>>
        ELSE LET col_names == CellTexts(table.rows[1])
                 team_idx  == TeamIdx(col_names, 0)
             IN  IF team_idx = -1 THEN <<>>
                 ELSE RowsCandidates(Tail(table.rows), team_idx)

RECURSIVE Candidates(_)
Candidates(tables) ==
    IF tables = <<>> THEN <<>>
    ELSE TableCandidates(Head(tables)) \o Candidates(Tail(tables))

\* the de-duplication keyed on the name instead of the URL
RECURSIVE DeDupeByName(_, _)
DeDupeByName(candidates, seen) ==
    IF candidates = <<>> THEN <<>>
    ELSE LET name == Head(candidates)[1]
         IN  IF name \in seen THEN DeDupeByName(Tail(candidates), seen)
             ELSE <<Head(candidates)>> \o DeDupeByName(Tail(candidates), seen \cup {name})

\* "De-dupe by URL": the loop over candidates with its set seen
RECURSIVE DeDupe(_, _)
DeDupe(candidates, seen) ==
    IF candidates = <<>> THEN <<>>
    ELSE LET url == Head(candidates)[2]
         IN  IF url \in seen THEN DeDupe(Tail(candidates), seen)
             ELSE <<Head(candidates)>> \o DeDupe(Tail(candidates), seen \cup {url})

\* scrape_club_links_from_league after http_get returned the document
ScrapeClubLinks(document) == DeDupe(Candidates(SelectSeq(document, IsWikitable)), {})

-----------------------------------------------------------------------------
(* scrape_club_links_from_league applied to league documents *)

MaxRows == 2

HrefX == WikiPath \o <<"X">>
HrefY == WikiPath \o <<"Y">>
HrefRed == <<"/", "w", "/", "Z", "?", "r", "e", "d", "l", "i", "n", "k", "=", "1">>
HrefFile == WikiPath \o <<"F", "i", "l", "e", ":", "x">>

Wikitable == <<"w", "i", "k", "i", "t", "a", "b", "l", "e">>

PosCell == Cell("td", <<"1">>, None)

\* what the team cell of a row may hold
TeamCells ==
    { Cell("td", <<"n">>, None),
      Cell("td", <<"A">>, Anchor(HrefX, <<"A">>)),
      Cell("td", <<"B">>, Anchor(HrefX, <<"B">>)),
      Cell("td", <<"A">>, Anchor(HrefY, <<"A">>)),
      Cell("td", <<"C">>, Anchor(HrefRed, <<"C">>)) }

\* rows of a "Pos | Team" table: the team cell may be missing
StandingsRows == {<<PosCell>>} \cup {<<PosCell, c>> : c \in TeamCells}

StandingsHeader == <<Cell("th", <<"P", "o", "s">>, None), Cell("th", <<"T", "e", "a", "m">>, None)>>

StandingsTables ==
    { [class |-> Wikitable, rows |-> <<StandingsHeader>> \o data] :
        data \in UNION {[1..n -> StandingsRows] : n \in 0..MaxRows} }

\* tables of other shapes, each with a row that links to a club
OtherTables ==
    { \* no rows at all
      [class |-> Wikitable, rows |-> <<>>],
      \* a standings table that is not of class wikitable
      [class |-> <<"i", "n", "f", "o", "b", "o", "x">>,
       rows |-> <<StandingsHeader, <<PosCell, Cell("td", <<"A">>, Anchor(HrefX, <<"A">>))>> >>],
      \* no position column
      [class |-> Wikitable,
       rows |-> << <<Cell("th", <<"C", "l", "u", "b">>, None), Cell("th", <<"C", "i", "t", "y">>, None)>>,
                   <<Cell("td", <<"A">>, Anchor(HrefX, <<"A">>)), Cell("td", <<"n">>, None)>> >>],
      \* "Team" is a header cell of the table but not of its first row
      [class |-> Wikitable,
       rows |-> << <<Cell("th", <<"P", "o", "s">>, None), Cell("th", <<"P", "l", "d">>, None)>>,
                   <<Cell("th", <<"T", "e", "a", "m">>, None), Cell("td", <<"A">>, Anchor(HrefX, <<"A">>))>> >>],
      \* the club column comes first; a file link, a link without text, a club
      [class |-> Wikitable \o <<" ", "s">>,
       rows |-> << <<Cell("th", <<"C", "l", "u", "b">>, None), Cell("th", <<"P", "o", "s">>, None)>>,
                   <<Cell("td", <<"x">>, Anchor(HrefFile, <<"x">>)), PosCell>>,
                   <<Cell("td", <<>>, Anchor(HrefX, <<>>)), PosCell>>,
                   <<Cell("th", <<"B">>, Anchor(HrefY, <<"B">>)), PosCell>> >>] }

LeagueTables == StandingsTables \cup OtherTables

\* documents of two tables
LeagueDocuments == {<<t1, t2>> : t1 \in LeagueTables, t2 \in LeagueTables}

LeagueInit ==
    /\ doc \in LeagueDocuments /\ links = None /\ xpc = "call"
    /\ PipeIdle /\ AliasIdle /\ InfoIdle /\ MatchIdle /\ NormIdle

CallScrapeClubLinks ==
    /\ xpc = "call"
    /\ links' = ScrapeClubLinks(doc)
    /\ xpc' = "done"
    /\ UNCHANGED <<doc, pipeVars, aliasVars, infoVars, matchVars, normVars>>

LeagueNext == CallScrapeClubLinks

SpecLeague == LeagueInit /\ [][LeagueNext]_vars

\* the (name, link) pairs met scanning the wikitables and their rows in
\* document order, before de-duplication
Scanned == Candidates(SelectSeq(doc, IsWikitable))

\* the index in the scanned pairs sc of the first pair with this link
FirstSeen(sc, url) == CHOOSE i \in 1..Len(sc) :
                          /\ sc[i][2] = url
                          /\ \A j \in 1..(i - 1) : sc[j][2] # url

\* C8: the pairs returned hold no link twice; each is the first pair scanned
\* with its link; every scanned link is returned; the pairs are in the order
\* of their first occurrence.
C8_DedupFirstSeen ==
    xpc = "done" =>
        LET sc    == Scanned
            first == [i \in 1..Len(links) |-> FirstSeen(sc, links[i][2])]
        IN  /\ \A i, j \in 1..Len(links) : i # j => links[i][2] # links[j][2]
            /\ {links[i][2] : i \in 1..Len(links)} = {sc[i][2] : i \in 1..Len(sc)}
            /\ \A i \in 1..Len(links) : links[i] = sc[first[i]]
            /\ \A i, j \in 1..Len(links) : i < j => first[i] < first[j]

\* two tables link the same club under different names, and another club:
\* one pair per link, the first name kept
C8_Witness ==
    /\ xpc = "done"
    /\ Len(Scanned) = 4
    /\ links = << <<<<"B">>, WIKI \o HrefX>>, <<<<"A">>, WIKI \o HrefY>> >>
    /\ Scanned[3] = <<<<"A">>, WIKI \o HrefX>>

-----------------------------------------------------------------------------
(* _generate_clubs.py: find_home_ground_link, on a parsed document *)
(*                                                                         *)
(* A club page is [infobox]: the rows (<tr>) of its first table of class   *)
(* infobox, in a one-element sequence, or None.  A row is [ths, tds], its  *)
(* <th> and <td> cells in order; a label is the get_text of a <th>; a      *)
(* value cell is [as, rest]: its <a href> elements in order and the text   *)
(* that follows them.                                                      *)

NonEmpty(s) == s # <<>>

\* td.get_text(" ", strip=True): the non-empty pieces of text joined with " "
ValueText(td) ==
    Join(SelectSeq([i \in 1..Len(td.as) |-> TextOf(td.as[i])] \o <<td.rest>>, NonEmpty), <<" ">>)

GroundLabels ==
    { <<"g", "r", "o", "u", "n", "d">>,
      <<"h", "o", "m", "e", " ", "g", "r", "o", "u", "n", "d">>,
      <<"s", "t", "a", "d", "i", "u", "m">> }

\* the label test as a substring test
LabelMatchesSubstring(label) == \E g \in GroundLabels : Contains(label, g)

LabelMatches(label) == label \in GroundLabels

\* the loop "for tr in infobox.find_all("tr")": the value it returns, None when it ends
RECURSIVE GroundFromRows(_)
GroundFromRows(rows) ==
    IF rows = <<>> THEN None
    ELSE LET tr == Head(rows)
         IN  IF tr.ths = <<>> \/ tr.tds = <<>> THEN GroundFromRows(Tail(rows))
             ELSE LET th    == tr.ths[1]
                      td    == tr.tds[1]
                      label == Lower(th)
                  IN  IF LabelMatches(label)
                      THEN IF td.as # <<>> /\ is_wiki_article_link(HrefOf(td.as[1]))
                           THEN <<TextOf(td.as[1]), normalize_wiki_href(HrefOf(td.as[1]))>>
                           ELSE IF ValueText(td) # <<>>
                           THEN <<ValueText(td), None>>
                           ELSE GroundFromRows(Tail(rows))
                      ELSE GroundFromRows(Tail(rows))

\* find_home_ground_link after http_get returned the document
FindHomeGround(document) ==
    IF document.infobox = None THEN None
    ELSE GroundFromRows(document.infobox[1])

-----------------------------------------------------------------------------
(* find_home_ground_link applied to club pages *)

MaxInfoboxRows == 2

HrefG == WikiPath \o <<"G">>
HrefH == WikiPath \o <<"H">>

InfoboxLabels ==
    { <<"G", "r", "o", "u", "n", "d">>,
      <<"S", "T", "A", "D", "I", "U", "M">>,
      <<"G", "r", "o", "u", "n", "d", "s">> }

\* the <a href> elements of a value cell: none; a ground; an image that links
\* to a ground; an image that links to its file; a red link before a ground
ValueAnchors ==
    { <<>>,
      <<Anchor(HrefG, <<"G">>)>>,
      <<Anchor(HrefG, <<>>)>>,
      <<Anchor(HrefFile, <<>>)>>,
      <<Anchor(HrefRed, <<"R">>), Anchor(HrefH, <<"H">>)>> }

ValueCells == {[as |-> as, rest |-> rest] : as \in ValueAnchors, rest \in {<<>>, <<"t">>}}

InfoboxRows ==
    { [ths |-> ths, tds |-> tds] :
        ths \in {<<>>} \cup {<<l>> : l \in InfoboxLabels},
        tds \in {<<>>} \cup {<<c>> : c \in ValueCells} }

ClubPages ==
    {[infobox |-> None]}
    \cup {[infobox |-> <<rows>>] : rows \in UNION {[1..n -> InfoboxRows] : n \in 0..MaxInfoboxRows}}

InfoInit ==
    /\ page \in ClubPages /\ gret = None /\ ipc = "call"
    /\ PipeIdle /\ AliasIdle /\ LeagueIdle /\ MatchIdle /\ NormIdle

CallFindHomeGround ==
    /\ ipc = "call"
    /\ gret' = FindHomeGround(page)
    /\ ipc' = "done"
    /\ UNCHANGED <<page, pipeVars, aliasVars, leagueVars, matchVars, normVars>>

InfoNext == CallFindHomeGround

SpecInfobox == InfoInit /\ [][InfoNext]_vars

InfoboxRowsOf(p) == IF p.infobox = None THEN <<>> ELSE p.infobox[1]

\* a row with a label cell and a value cell whose label is one of the three
Qualifies(tr) ==
    /\ tr.ths # <<>> /\ tr.tds # <<>>
    /\ Lower(tr.ths[1]) \in { <<"g", "r", "o", "u", "n", "d">>,
                              <<"h", "o", "m", "e", " ", "g", "r", "o", "u", "n", "d">>,
                              <<"s", "t", "a", "d", "i", "u", "m">> }

FirstLinkIsArticle(td) == td.as # <<>> /\ is_wiki_article_link(td.as[1][1])

\* what one row yields: (link text, link), (plain text, no link), or nothing
Yield(tr) ==
    LET td == tr.tds[1]
    IN  IF FirstLinkIsArticle(td) THEN <<td.as[1][2], WIKI \o td.as[1][1]>>
        ELSE IF ValueText(td) # <<>> THEN <<ValueText(td), <<>>>>
        ELSE <<>>

\* C9 as stated: the result is that of the first row whose label is one of
\* the three, whatever that row holds; later rows are ignored.
C9_FirstQualifyingRowOnly ==
    ipc = "done" =>
        LET rows == InfoboxRowsOf(page)
            q    == {i \in 1..Len(rows) : Qualifies(rows[i])}
        IN  IF q = {} THEN gret = <<>>
            ELSE gret = Yield(rows[CHOOSE i \in q : \A j \in q : i <= j])

\* C9 amended: the result is that of the first row, among those whose label
\* is one of the three, that yields something: (link text, link) when the
\* first link of its value cell is a content-article link, otherwise (plain
\* text, no link) when its plain text is not empty.  Rows with such a label
\* that yield neither are skipped; rows after the first yielding one are
\* ignored; without a yielding row the result is None.
C9_FirstYieldingRow ==
    ipc = "done" =>
        LET rows == InfoboxRowsOf(page)
            q    == {i \in 1..Len(rows) : Qualifies(rows[i]) /\ Yield(rows[i]) # <<>>}
        IN  IF q = {} THEN gret = <<>>
            ELSE gret = Yield(rows[CHOOSE i \in q : \A j \in q : i <= j])

\* a "Ground" row whose cell holds only an image, then a "Stadium" row with
\* a linked ground: the second row is the one used
C9_Witness ==
    /\ ipc = "done"
    /\ Len(InfoboxRowsOf(page)) = 2
    /\ Qualifies(InfoboxRowsOf(page)[1])
    /\ Yield(InfoboxRowsOf(page)[1]) = <<>>
    /\ InfoboxRowsOf(page)[2].ths = << <<"S", "T", "A", "D", "I", "U", "M">> >>
    /\ gret = <<<<"G">>, WIKI \o HrefG>>

-----------------------------------------------------------------------------
(* _create_logo_assignment.py: the script *)
(*                                                                         *)
(* A file under LOGO_ROOT is [league, stem, suffix]: the name of its       *)
(* directory, and its name split as pathlib does.  A club of clubs.json    *)
(* is a record; a key it lacks holds None, which is what club.get gives.   *)

IMAGE_EXTS == { <<".", "p", "n", "g">>, <<".", "s", "v", "g">> }

ToSet(s) == {s[i] : i \in 1..Len(s)}

\* f"club_logos_by_league/{league}/{file.name}"
LogoPath(file) == <<file.league, file.stem \o file.suffix>>

\* "load all logos": the list logos built from the directory listing
RECURSIVE LoadLogoList(_)
LoadLogoList(fs) ==
    IF fs = <<>> THEN <<>>
    ELSE LET file == Head(fs)
         IN  (IF Lower(file.suffix) \in IMAGE_EXTS
              THEN << [league |-> file.league,
                       path   |-> LogoPath(file),
                       stem   |-> normalise(file.stem),
                       tokens |-> ToSet(tokens(file.stem))] >>
              ELSE <<>>)
             \o LoadLogoList(Tail(fs))

\* "1. exact match": the index of the logo the loop breaks on, 0 for None
RECURSIVE ExactMatch(_, _, _, _)
ExactMatch(ls, league, club_norm, i) ==
    IF i > Len(ls) THEN 0
    ELSE IF ls[i].league = league /\ ls[i].stem = club_norm THEN i
    ELSE ExactMatch(ls, league, club_norm, i + 1)

\* "2. containment"
RECURSIVE ContainmentMatch(_, _, _, _)
ContainmentMatch(ls, league, club_norm, i) ==
    IF i > Len(ls) THEN 0
    ELSE IF ls[i].league = league /\ Contains(ls[i].stem, club_norm) THEN i
    ELSE ContainmentMatch(ls, league, club_norm, i + 1)

\* "3. base-name containment"
RECURSIVE BaseMatch(_, _, _, _)
BaseMatch(ls, league, base, i) ==
    IF i > Len(ls) THEN 0
    ELSE IF ls[i].league = league /\ base # <<>> /\ Contains(ls[i].stem, base) THEN i
    ELSE BaseMatch(ls, league, base, i + 1)

\* the scoring loop with "score >= best_score"
RECURSIVE OverlapScanLastWins(_, _, _, _, _, _)
OverlapScanLastWins(ls, league, club_tokens, i, best, best_score) ==
    IF i > Len(ls) THEN <<best, best_score>>
    ELSE IF ls[i].league # league
    THEN OverlapScanLastWins(ls, league, club_tokens, i + 1, best, best_score)
    ELSE LET score == Cardinality(club_tokens \cap ls[i].tokens)
         IN  IF score >= best_score
             THEN OverlapScanLastWins(ls, league, club_tokens, i + 1, i, score)
             ELSE OverlapScanLastWins(ls, league, club_tokens, i + 1, best, best_score)

\* "4. token overlap scoring": the loop from logo i on; <<best, best_score>> at its end
RECURSIVE OverlapScan(_, _, _, _, _, _)
OverlapScan(ls, league, club_tokens, i, best, best_score) ==
    IF i > Len(ls) THEN <<best, best_score>>
    ELSE IF ls[i].league # league
    THEN OverlapScan(ls, league, club_tokens, i + 1, best, best_score)
    ELSE LET score == Cardinality(club_tokens \cap ls[i].tokens)
         IN  IF score > best_score
             THEN OverlapScan(ls, league, club_tokens, i + 1, i, score)
             ELSE OverlapScan(ls, league, club_tokens, i + 1, best, best_score)

OverlapMatch(ls, league, club_tokens) ==
    LET r == OverlapScan(ls, league, club_tokens, 1, 0, 0)
    IN  IF r[2] < 1 THEN 0 ELSE r[1]

\* the tiers with containment tried before the exact match
BestContainmentFirst(ls, name, league) ==
    LET club_norm   == normalise(name)
        club_tokens == ToSet(tokens(name))
        t2 == ContainmentMatch(ls, league, club_norm, 1)
        t1 == IF t2 = 0 THEN ExactMatch(ls, league, club_norm, 1) ELSE t2
        t3 == IF t1 = 0 THEN BaseMatch(ls, league, Join(tokens(name), <<"_">>), 1) ELSE t1
        t4 == IF t3 = 0 THEN OverlapMatch(ls, league, club_tokens) ELSE t3
    IN  t4

\* lines 66-104: best for a club with a name and a league, 0 for None
Best(ls, name, league) ==
    LET club_norm   == normalise(name)
        club_tokens == ToSet(tokens(name))
        t1 == ExactMatch(ls, league, club_norm, 1)
        t2 == IF t1 = 0 THEN ContainmentMatch(ls, league, club_norm, 1) ELSE t1
        t3 == IF t2 = 0 THEN BaseMatch(ls, league, Join(tokens(name), <<"_">>), 1) ELSE t2
        t4 == IF t3 = 0 THEN OverlapMatch(ls, league, club_tokens) ELSE t3
    IN  t4

\* the digits of a \uXXXX escape as json.dumps writes them
HexDigits == <<"0", "1", "2", "3", "4", "5", "6", "7", "8", "9", "a", "b", "c", "d", "e", "f">>

Hex4(n) ==
    << HexDigits[((n \div 4096) % 16) + 1], HexDigits[((n \div 256) % 16) + 1],
       HexDigits[((n \div 16) % 16) + 1], HexDigits[(n % 16) + 1] >>

HexValue(d) == (CHOOSE i \in 1..16 : HexDigits[i] = d) - 1

\* the characters of the model outside ASCII
NonAscii == {"U+00E9", "U+0301", "U+2019", "U+00A0"}

\* chr(n) for the code point of a character of the model outside ASCII
Chr(n) == CHOOSE c \in NonAscii : Ord(c) = n

\* one character inside a JSON string as json.dumps writes it
JsonEscapeChar(c, ensure_ascii) ==
    IF c = "U+0022" THEN <<"U+005C", "U+0022">>
    ELSE IF c = "U+005C" THEN <<"U+005C", "U+005C">>
    ELSE IF c = "U+0009" THEN <<"U+005C", "t">>
    ELSE IF ensure_ascii /\ ~IsAscii(c) THEN <<"U+005C", "u">> \o Hex4(Ord(c))
    ELSE <<c>>

\* the text between the quotes that json.dumps writes for a str
RECURSIVE JsonDumpsStr(_, _)
JsonDumpsStr(s, ensure_ascii) ==
    IF s = <<>> THEN <<>>
    ELSE JsonEscapeChar(Head(s), ensure_ascii) \o JsonDumpsStr(Tail(s), ensure_ascii)

\* the str that json.loads reads from the text between the quotes
RECURSIVE JsonLoadsStr(_)
JsonLoadsStr(t) ==
    IF t = <<>> THEN <<>>
    ELSE IF Head(t) # "U+005C" THEN <<Head(t)>> \o JsonLoadsStr(Tail(t))
    ELSE IF t[2] = "u"
    THEN <<Chr(4096 * HexValue(t[3]) + 256 * HexValue(t[4]) + 16 * HexValue(t[5]) + HexValue(t[6]))>>
         \o JsonLoadsStr(SubSeq(t, 7, Len(t)))
    ELSE <<(IF t[2] = "t" THEN "U+0009" ELSE t[2])>> \o JsonLoadsStr(SubSeq(t, 3, Len(t)))

\* CLUBS_JSON holds, per club, the texts of its fields; a key that is absent
\* or null is None; the logo path is kept as its league and file name
json_dumps(cl, ensure_ascii) ==
    [j \in 1..Len(cl) |->
        [ id     |-> JsonDumpsStr(cl[j].id, ensure_ascii),
          name   |-> JsonDumpsStr(cl[j].name, ensure_ascii),
          league |-> JsonDumpsStr(cl[j].league, ensure_ascii),
          logo   |-> [n \in 1..Len(cl[j].logo) |-> JsonDumpsStr(cl[j].logo[n], ensure_ascii)] ]]

json_loads(txt) ==
    [j \in 1..Len(txt) |->
        [ id     |-> JsonLoadsStr(txt[j].id),
          name   |-> JsonLoadsStr(txt[j].name),
          league |-> JsonLoadsStr(txt[j].league),
          logo   |-> [n \in 1..Len(txt[j].logo) |-> JsonLoadsStr(txt[j].logo[n])] ]]

\* the assignment that also replaces the name by its normal form
SetLogoAndName(club, path) == [club EXCEPT !.logo = path, !.name = normalise(club.name)]

\* club["logo"] = best["path"]
SetLogo(club, path) == [club EXCEPT !.logo = path]

ScriptLoad ==
    /\ mpc = "load"
    /\ logos' = LoadLogoList(files)
    /\ clubs' = json_loads(clubs_json)
    /\ mpc' = "match"
    /\ UNCHANGED <<files, clubs_json, k, matched, missing>>

\* one pass of "for club in clubs"
MatchClub ==
    /\ mpc = "match"
    /\ k < Len(clubs)
    /\ LET club == clubs[k + 1]
       IN  IF club.name = None \/ club.league = None
           THEN UNCHANGED <<clubs, matched, missing>>
           ELSE LET best == Best(logos, club.name, club.league)
                IN  IF best # 0
                    THEN /\ clubs' = [clubs EXCEPT ![k + 1] = SetLogo(club, logos[best].path)]
                         /\ matched' = matched + 1
                         /\ UNCHANGED missing
                    ELSE /\ missing' = missing + 1
                         /\ UNCHANGED <<clubs, matched>>
    /\ k' = k + 1
    /\ UNCHANGED <<files, clubs_json, logos, mpc>>

\* the loop is over: "write back"
ScriptWrite ==
    /\ mpc = "match"
    /\ k = Len(clubs)
    /\ clubs_json' = json_dumps(clubs, TRUE)
    /\ mpc' = "done"
    /\ UNCHANGED <<files, logos, clubs, k, matched, missing>>

-----------------------------------------------------------------------------
(* the script run on logo directories and club lists *)

MaxLogos == 2
MaxClubs == 1

PL == <<"P", "L">>
CH == <<"C", "H">>
Png == <<".", "p", "n", "g">>

LogoFile(league, stem, suffix) == [league |-> league, stem |-> stem, suffix |-> suffix]

LogoFiles ==
    { LogoFile(PL, <<"a", " ", "b">>, Png),
      LogoFile(PL, <<"a", " ", "b", "_", "F", "C">>, Png),
      LogoFile(PL, <<"b", " ", "a">>, <<".", "S", "V", "G">>),
      LogoFile(PL, <<"b">>, Png),
      LogoFile(PL, <<"B", "_", "d">>, Png),
      LogoFile(PL, <<"a", " ", "b">>, <<".", "t", "x", "t">>),
      LogoFile(CH, <<"a", " ", "b">>, Png),
      LogoFile(CH, <<"b", " ", "a">>, Png) }

\* a directory holds a file once; iterdir() gives the files in any order
Listings ==
    { fs \in UNION {[1..n -> LogoFiles] : n \in 0..MaxLogos} :
        \A i, j \in 1..Len(fs) : i # j => fs[i] # fs[j] }

\* a club as generate_clubs stores it: the id is the slug of the name
ClubEntry(name, league, logo) ==
    [id |-> slugify(name), name |-> name, league |-> league, logo |-> logo]

OldLogo == <<PL, <<"o", "l", "d">> \o Png>>

ClubEntries ==
    { ClubEntry(<<"A", " ", "B">>, PL, None),
      ClubEntry(<<"A", " ", "B">>, PL, OldLogo),
      ClubEntry(<<"A", " ", "B", " ", "F", "C">>, PL, None),
      ClubEntry(<<"F", ".", "C", ".">>, PL, None),
      ClubEntry(<<"&">>, PL, None),
      ClubEntry(<<"U+00E9", " ", "B">>, PL, None),
      ClubEntry(None, PL, None),
      ClubEntry(<<"A", " ", "B">>, None, OldLogo) }

ClubLists == UNION {[1..n -> ClubEntries] : n \in 0..MaxClubs}

\* the file as generate_clubs writes it (ensure_ascii=False) or as a run of
\* this script has written it (ensure_ascii=True)
ClubFiles == {json_dumps(cl, a) : cl \in ClubLists, a \in BOOLEAN}

MatchInit ==
    /\ files \in Listings
    /\ clubs_json \in ClubFiles
    /\ logos = <<>> /\ clubs = <<>> /\ k = 0 /\ mpc = "load"
    /\ matched = 0 /\ missing = 0
    /\ PipeIdle /\ AliasIdle /\ LeagueIdle /\ InfoIdle /\ NormIdle

MatchNext ==
    \/ ScriptLoad /\ UNCHANGED <<pipeVars, aliasVars, leagueVars, infoVars, normVars>>
    \/ MatchClub /\ UNCHANGED <<pipeVars, aliasVars, leagueVars, infoVars, normVars>>
    \/ ScriptWrite /\ UNCHANGED <<pipeVars, aliasVars, leagueVars, infoVars, normVars>>

SpecMatch == MatchInit /\ [][MatchNext]_vars

\* the clubs the loop has been through that have a name and a league
Resolved == {j \in 1..k : clubs[j].name # <<>> /\ clubs[j].league # <<>>}

OwnLeague(c) == {i \in 1..Len(logos) : logos[i].league = c.league}

ExactTier(c) == {i \in OwnLeague(c) : logos[i].stem = normalise(c.name)}

ContainTier(c) == {i \in OwnLeague(c) : Contains(logos[i].stem, normalise(c.name))}

BaseTier(c) ==
    LET base == Join(tokens(c.name), <<"_">>)
    IN  {i \in OwnLeague(c) : base # <<>> /\ Contains(logos[i].stem, base)}

Overlap(c, i) == Cardinality(logos[i].tokens \cap ToSet(tokens(c.name)))

OverlapTier(c) == {i \in OwnLeague(c) : Overlap(c, i) >= 1}

\* the candidates of the first tier that has any
FirstTier(c) ==
    IF ExactTier(c) # {} THEN ExactTier(c)
    ELSE IF ContainTier(c) # {} THEN ContainTier(c)
    ELSE IF BaseTier(c) # {} THEN BaseTier(c)
    ELSE OverlapTier(c)

\* C4: the logo of a club comes from the first of the tiers exact, containment,
\* base-name containment, token overlap that has a candidate of the club's
\* league: it is the path of a candidate of that tier, whatever later tiers
\* and other leagues hold; a club without a candidate in any tier keeps the
\* logo it had.
C4_TierPrecedence ==
    mpc = "match" =>
        LET read == json_loads(clubs_json)
        IN  \A j \in Resolved :
                LET c == read[j]
                    t == FirstTier(c)
                IN  IF t = {} THEN clubs[j].logo = c.logo
                    ELSE \E i \in t : clubs[j].logo = logos[i].path

\* the exact candidate comes after a candidate of the overlap tier and is chosen
C4_Witness ==
    /\ mpc = "match" /\ k = 1 /\ Len(logos) = 2
    /\ clubs_json[1] = ClubEntry(<<"A", " ", "B">>, PL, None)
    /\ logos[1].stem = <<"b", "_", "a">> /\ logos[1].league = PL
    /\ logos[2].stem = <<"a", "_", "b">> /\ logos[2].league = PL
    /\ clubs[1].logo = logos[2].path

\* C5: when the first three tiers have no candidate, the logo is that of the
\* candidate of the club's league with the largest token overlap, the earliest
\* in the pool among equals, if that overlap is at least 1; otherwise the club
\* keeps the logo it had and is counted as missing.
C5_TokenOverlap ==
    mpc = "match" =>
      LET read == json_loads(clubs_json)
          none == {j \in Resolved : FirstTier(read[j]) = {}}
      IN
        /\ \A j \in Resolved :
              LET c == read[j]
                  own == OwnLeague(c)
              IN  (ExactTier(c) = {} /\ ContainTier(c) = {} /\ BaseTier(c) = {}) =>
                    IF \A i \in own : Overlap(c, i) < 1
                    THEN clubs[j].logo = c.logo
                    ELSE LET top == {i \in own : \A n \in own : Overlap(c, n) <= Overlap(c, i)}
                             first == CHOOSE i \in top : \A n \in top : i <= n
                         IN  clubs[j].logo = logos[first].path
        /\ missing = Cardinality(none)
        /\ matched = Cardinality(Resolved \ none)

\* two candidates share one token with the club: the earlier one is chosen
C5_Witness ==
    /\ mpc = "match" /\ k = 1 /\ Len(logos) = 2
    /\ clubs_json[1] = ClubEntry(<<"A", " ", "B">>, PL, OldLogo)
    /\ logos[1].stem = <<"b">> /\ logos[1].league = PL
    /\ logos[2].stem = <<"b", "_", "d">> /\ logos[2].league = PL
    /\ clubs[1].logo = logos[1].path
    /\ matched = 1

-----------------------------------------------------------------------------
(* _generate_clubs.py: extract_coords_from_wiki_page, on a parsed document *)
(*                                                                         *)
(* A ground page is [geo, geo_dec].  geo is None or, in a one-element      *)
(* sequence, the text of the first span of class geo as the parts that     *)
(* split(";") and strip() give; a part is [float, val]: whether float()    *)
(* accepts it and, if so, its value in millionths of a degree.  geo_dec    *)
(* tells whether the page has a span of class geo-dec.                     *)

Part(isFloat, val) == [float |-> isFloat, val |-> val]

\* lines 231-235: the pair returned inside try, None when the except clause passes
ParseGeo(parts) ==
    IF Len(parts) # 2 THEN None
    ELSE IF ~parts[1].float \/ ~parts[2].float THEN None
    ELSE <<parts[1].val, parts[2].val>>

\* extract_coords_from_wiki_page after http_get returned the document
ExtractCoords(document) ==
    IF document.geo # None /\ ParseGeo(document.geo[1]) # None
    THEN ParseGeo(document.geo[1])
    ELSE IF document.geo_dec THEN None
    ELSE None

-----------------------------------------------------------------------------
(* _generate_clubs.py: main *)

ENG == <<"E", "N", "G">>
SCO == <<"S", "C", "O">>
WAL == <<"W", "A", "L">>
IRL == <<"I", "R", "L">>
NIR == <<"N", "I", "R">>

League(country, code, tier) == [country |-> country, code |-> code, tier |-> tier]

\* country, code and tier of the entries of LEAGUES, in order
LEAGUES ==
    << League(ENG, <<"P", "L">>, 1), League(ENG, <<"C", "H">>, 2),
       League(ENG, <<"L", "1">>, 3), League(ENG, <<"L", "2">>, 4),
       League(ENG, <<"N", "L">>, 5),
       League(SCO, <<"S", "P">>, 1), League(SCO, <<"S", "C">>, 2),
       League(SCO, <<"S", "L", "1">>, 3), League(SCO, <<"S", "L", "2">>, 4),
       League(WAL, <<"C", "P">>, 1),
       League(IRL, <<"P", "D">>, 1), League(IRL, <<"F", "D">>, 2),
       League(NIR, <<"N", "I", "P">>, 1) >>

\* the run is over the first NumLeagues entries of LEAGUES
NumLeagues == 2

\* round(x, 6) of a value held in millionths of a degree
Round6(x) == x

\* the dict built on lines 282-294
ClubRecord(club_name, club_url, league, g, c) ==
    [ id               |-> slugify(club_name),
      name             |-> club_name,
      country          |-> league.country,
      league           |-> league.code,
      tier             |-> league.tier,
      lat              |-> Round6(c[1]),
      lon              |-> Round6(c[2]),
      ground           |-> g[1],
      aliases          |-> build_aliases(club_name),
      wikipedia        |-> club_url,
      ground_wikipedia |-> g[2] ]

\* d.setdefault(key, rec): the first record of an id is kept
DictSetFirstWins(d, rec) ==
    IF \E i \in 1..Len(d) : d[i].id = rec.id
    THEN d
    ELSE Append(d, rec)

\* d[key] = rec on a dict held as its values in insertion order: a key that
\* is present keeps its place
DictSet(d, rec) ==
    IF \E i \in 1..Len(d) : d[i].id = rec.id
    THEN [i \in 1..Len(d) |-> IF d[i].id = rec.id THEN rec ELSE d[i]]
    ELSE Append(d, rec)

\* (country, tier, name) of a < (country, tier, name) of b
KeyLess(a, b) ==
    IF a.country # b.country THEN StrLess(a.country, b.country)
    ELSE IF a.tier # b.tier THEN a.tier < b.tier
    ELSE StrLess(a.name, b.name)

\* rec put into the sorted list l after the entries that are not greater (stable)
RECURSIVE InsertSorted(_, _)
InsertSorted(l, rec) ==
    IF l = <<>> THEN <<rec>>
    ELSE IF KeyLess(rec, Head(l)) THEN <<rec>> \o l
    ELSE <<Head(l)>> \o InsertSorted(Tail(l), rec)

\* sorted(values, key=lambda c: (c["country"], c["tier"], c["name"]))
RECURSIVE SortedByKey(_)
SortedByKey(values) ==
    IF values = <<>> THEN <<>>
    ELSE InsertSorted(SortedByKey(SubSeq(values, 1, Len(values) - 1)), values[Len(values)])

\* what http_get does: it returns the text, or raise_for_status raises
\* requests.HTTPError, or requests.get raises another exception (a timeout,
\* a connection error)
HttpOutcomes == {"text", "HTTPError", "Timeout"}

\* the except clauses when only requests.HTTPError is caught
HandlerHttpOnly(exc) == IF exc = "HTTPError" THEN "http_error" ELSE "traceback"

\* the except clauses of lines 299-302: the line printed for an exception
\* raised inside the try, "traceback" when none catches it
Handler(exc) == IF exc = "HTTPError" THEN "http_error" ELSE "error"

\* the next pass of "for ... in LEAGUES", or the end of the loop
NextLeague ==
    /\ IF li < NumLeagues
       THEN pc' = "league" /\ li' = li + 1
       ELSE pc' = "final" /\ li' = li
    \* club_links and the loop variables are dead until line 256 assigns them again
    /\ club_links' = <<>> /\ ci' = 0 /\ ground' = None

\* the next pass of "for club_name, club_url in club_links", or the end of the loop
NextClub ==
    IF ci < Len(club_links)
    THEN pc' = "club" /\ ci' = ci + 1 /\ ground' = None /\ UNCHANGED <<li, club_links>>
    ELSE NextLeague

-----------------------------------------------------------------------------
(* a run of main over pages of a few shapes *)

Ab == <<"A", "b">>
AB == <<"A", "B">>
Cn == <<"C">>

TeamRow(text, href) == <<PosCell, Cell("td", text, Anchor(href, text))>>

StandingsOf(data) == <<[class |-> Wikitable, rows |-> <<StandingsHeader>> \o data]>>

\* league pages: no standings table; two clubs with the same slug and a
\* third club; that club and, after it, a club with that slug again, a
\* badge that links to a page and a link seen before
MainLeaguePages ==
    { <<[class |-> Wikitable, rows |-> <<>>]>>,
      StandingsOf(<<TeamRow(Ab, HrefX), TeamRow(AB, HrefY), TeamRow(Cn, HrefG)>>),
      StandingsOf(<<TeamRow(Cn, HrefY), TeamRow(AB, HrefX), TeamRow(<<>>, HrefH), TeamRow(Ab, HrefX)>>) }

GroundRow(as, rest) ==
    [ths |-> <<<<"G", "r", "o", "u", "n", "d">>>>, tds |-> <<[as |-> as, rest |-> rest]>>]

\* club pages: no infobox; a linked ground; a ground in plain text; a ground
\* cell whose first link holds an image and no text
MainClubPages ==
    { [infobox |-> None],
      [infobox |-> <<<<GroundRow(<<Anchor(HrefG, <<"G">>)>>, <<>>)>>>>],
      [infobox |-> <<<<GroundRow(<<>>, <<"t">>)>>>>],
      [infobox |-> <<<<GroundRow(<<Anchor(HrefH, <<>>)>>, <<"t">>)>>>>] }

\* ground pages: "51.555; -0.108"; "N/A" beside a geo-dec span; "51.555; x";
\* no coordinates at all
MainGroundPages ==
    { [geo |-> <<<<Part(TRUE, 51555000), Part(TRUE, -108000)>>>>, geo_dec |-> FALSE],
      [geo |-> <<<<Part(FALSE, 0)>>>>, geo_dec |-> TRUE],
      [geo |-> <<<<Part(TRUE, 51555000), Part(FALSE, 0)>>>>, geo_dec |-> FALSE],
      [geo |-> None, geo_dec |-> FALSE] }

Init ==
    /\ pc = "league" /\ li = 1 /\ club_links = <<>> /\ ci = 0 /\ ground = None
    /\ all_clubs = <<>> /\ out = Line("none", 0, 0) /\ sinceFetch = "none"
    /\ lastOk = {} /\ written = None
    /\ AliasIdle /\ LeagueIdle /\ InfoIdle /\ MatchIdle /\ NormIdle

\* lines 254-262: one league up to the loop over its clubs.  The call of
\* line 256 is outside the try: an exception of http_get leaves main
ScrapeLeague ==
    /\ pc = "league"
    /\ sinceFetch' = "fetched"
    /\ \E r \in HttpOutcomes :
         IF r # "text"
         THEN /\ pc' = "aborted"
              /\ out' = Line("traceback", li, 0)
              /\ UNCHANGED <<li, club_links, ci, ground>>
         ELSE \E document \in MainLeaguePages :
                LET found == ScrapeClubLinks(document)
                IN  IF found = <<>>
                    THEN out' = Line("no_clubs", li, 0) /\ NextLeague
                    ELSE /\ out' = Line("found", li, 0)
                         /\ pc' = "club" /\ club_links' = found /\ ci' = 1
                         /\ UNCHANGED <<li, ground>>
    /\ UNCHANGED <<all_clubs, lastOk, written>>
    /\ UNCHANGED <<aliasVars, leagueVars, infoVars, matchVars, normVars>>

\* an exception raised inside the try of lines 267-302
Raised(exc) ==
    IF Handler(exc) = "traceback"
    THEN pc' = "aborted" /\ out' = Line("traceback", li, ci)
                         /\ UNCHANGED <<li, club_links, ci, ground>>
    ELSE out' = Line(Handler(exc), li, ci) /\ NextClub

\* lines 264-279 for one club: find_home_ground_link and the two tests on
\* its result, up to the call of extract_coords_from_wiki_page
FindGround ==
    /\ pc = "club"
    /\ sinceFetch' = "fetched"
    /\ \E r \in HttpOutcomes :
         IF r # "text" THEN Raised(r)
         ELSE \E document \in MainClubPages :
                LET g == FindHomeGround(document)
                IN  IF g = None THEN out' = Line("no_ground", li, ci) /\ NextClub
                    ELSE IF g[2] = None THEN out' = Line("no_coords", li, ci) /\ NextClub
                    ELSE /\ pc' = "ground" /\ ground' = g
                         /\ UNCHANGED <<li, club_links, ci, out>>
    /\ UNCHANGED <<all_clubs, lastOk, written>>
    /\ UNCHANGED <<aliasVars, leagueVars, infoVars, matchVars, normVars>>

\* lines 274-297 for one club: extract_coords_from_wiki_page, the test on
\* its result, the record, the tick and the sleep
ExtractAndStore ==
    /\ pc = "ground"
    /\ \E r \in HttpOutcomes :
         IF r # "text"
         THEN Raised(r) /\ sinceFetch' = "fetched" /\ UNCHANGED <<all_clubs, lastOk>>
         ELSE \E document \in MainGroundPages :
                LET c == ExtractCoords(document)
                IN  IF c = None
                    THEN /\ out' = Line("no_coords", li, ci) /\ NextClub
                         /\ sinceFetch' = "fetched"
                         /\ UNCHANGED <<all_clubs, lastOk>>
                    ELSE LET rec == ClubRecord(club_links[ci][1], club_links[ci][2],
                                               LEAGUES[li], ground, c)
                         IN  /\ all_clubs' = DictSet(all_clubs, rec)
                             /\ lastOk' = {x \in lastOk : x.id # rec.id} \cup {rec}
                             /\ out' = Line("ok", li, ci)
                             /\ sinceFetch' = "slept"
                             /\ NextClub
    /\ UNCHANGED written
    /\ UNCHANGED <<aliasVars, leagueVars, infoVars, matchVars, normVars>>

\* lines 304-307: the sorted list written to OUT_FILE
WriteOut ==
    /\ pc = "final"
    /\ written' = <<SortedByKey(all_clubs)>>
    /\ out' = Line("written", li, 0)
    /\ pc' = "done"
    /\ UNCHANGED <<li, club_links, ci, ground, all_clubs, sinceFetch, lastOk>>
    /\ UNCHANGED <<aliasVars, leagueVars, infoVars, matchVars, normVars>>

Next == ScrapeLeague \/ FindGround \/ ExtractAndStore \/ WriteOut

Spec == Init /\ [][Next]_vars

-----------------------------------------------------------------------------
(* properties of main *)

\* the step ends the work on the current club without the tick
ClubFailed ==
    /\ pc \in {"club", "ground"}
    /\ pc' # "ground"
    /\ ~(out' = Line("ok", li, ci))

\* the step goes on to the club after the current one, or past the league
\* if it was the last
MovedOn ==
    IF ci < Len(club_links)
    THEN pc' = "club" /\ li' = li /\ club_links' = club_links /\ ci' = ci + 1
    ELSE IF li < NumLeagues
    THEN pc' = "league" /\ li' = li + 1
    ELSE pc' = "final"

\* C1: a club that fails (no ground, no coordinates, an HTTP error or
\* another exception on the club page or the ground page) leaves the
\* accumulated records as they were and the run goes on to the next club of
\* the league, to the next league after the last club, or to the writing of
\* the file after the last league.
C1_ClubIsolation == [][ClubFailed => (all_clubs' = all_clubs /\ MovedOn)]_vars

\* a timeout on the ground page of the first club was caught with a record
\* of the league before in place, and the second club is being processed
C1_Witness ==
    /\ out = Line("error", 2, 1)
    /\ pc = "club" /\ ci = 2
    /\ Len(all_clubs) = 1 /\ all_clubs[1].tier = 1

\* C2: a league that yields no clubs (no qualifying table, or a failed
\* fetch of its page) leaves the records as they were and the run goes on to
\* the next league, or to the writing of the file after the last league.
C2_LeagueIsolation ==
    [][(pc = "league" /\ pc' # "club") =>
          /\ all_clubs' = all_clubs
          /\ IF li < NumLeagues THEN pc' = "league" /\ li' = li + 1 ELSE (pc' = "final")]_vars

\* the record has a name, the name and the link of a ground and a pair of
\* coordinates
Complete(rec) ==
    /\ rec.name # <<>>
    /\ rec.ground \in Seq(Range(PrintableAscii))
    /\ rec.ground_wikipedia # None
    /\ StartsWith(rec.ground_wikipedia, WIKI)
    /\ rec.lat \in Int /\ rec.lon \in Int

\* the step prints that the current club has no ground or no coordinates
Dropped ==
    \/ out' = Line("no_ground", li, ci)
    \/ out' = Line("no_coords", li, ci)

C6_DelayBetweenFetches ==
    [][(pc \in {"league", "club", "ground"}) => (sinceFetch # "fetched")]_vars

Values(d) == {d[i] : i \in 1..Len(d)}

\* C10: all_clubs holds one record per id, and it is the record of the last
\* club with that id that was resolved; once the file is written it holds
\* these records, one entry per id, in strictly increasing order of
\* (country, tier, name).
C10_LastWriteWins ==
    /\ \A i, j \in 1..Len(all_clubs) : i # j => all_clubs[i].id # all_clubs[j].id
    /\ Values(all_clubs) = lastOk
    /\ pc = "done" =>
         /\ written # None
         /\ Len(written[1]) = Len(all_clubs)
         /\ Values(written[1]) = Values(all_clubs)
         /\ \A i, j \in 1..Len(written[1]) : i < j => KeyLess(written[1][i], written[1][j])

\* the record of the id stored first was replaced in the second league, and
\* the file lists the records in another order than they were first stored
C10_Witness ==
    /\ pc = "done"
    /\ Len(all_clubs) = 2
    /\ all_clubs[1].id = <<"a", "b">> /\ all_clubs[1].tier = 2 /\ all_clubs[1].name = Ab
    /\ all_clubs[2].tier = 1
    /\ written[1] = <<all_clubs[2], all_clubs[1]>>

-----------------------------------------------------------------------------
\* the step that writes CLUBS_JSON
Writes == mpc = "match" /\ mpc' = "done"

\* C12: the script leaves the logo files and, once loaded, the list logos as
\* they are; the file it writes holds the clubs of the file it read, in
\* order, each with its id, name and league as read; a club that lacks a
\* name or a league, or has no candidate in any tier, is written as read; any
\* other club has the path of a logo of its own league as its logo.
C12_OnlyLogoChanges ==
    [][ /\ files' = files
        /\ (mpc # "load" => logos' = logos)
        /\ Writes =>
             LET before == json_loads(clubs_json)
                 after  == json_loads(clubs_json')
             IN  /\ Len(after) = Len(before)
                 /\ \A j \in 1..Len(before) :
                      /\ after[j].id = before[j].id
                      /\ after[j].name = before[j].name
                      /\ after[j].league = before[j].league
                      /\ IF before[j].name = None \/ before[j].league = None
                            \/ FirstTier(before[j]) = {}
                         THEN after[j] = before[j]
                         ELSE \E i \in OwnLeague(before[j]) : after[j].logo = logos[i].path
      ]_vars

\* a club whose name has an accent was matched, and the file written holds
\* the name with the accent escaped
C12_Witness ==
    /\ mpc = "done" /\ matched = 1
    /\ clubs_json[1].name = <<"U+005C", "u", "0", "0", "e", "9", " ", "B">>
    /\ clubs[1].name = <<"U+00E9", " ", "B">>
    /\ clubs_json[1].logo = <<PL, <<"b">> \o Png>>

(* normalise and safe_name applied to strings, and again to their results *)

MaxTextLen == 3

\* a lower-case and an upper-case letter, a digit, "_", punctuation, a letter
\* with an accent, and three kinds of whitespace
NormAlphabet == {"a", "B", "1", "_", "-", "U+00E9", " ", "U+0009", "U+00A0"}

Normalisers == {"normalise", "safe_name"}

Apply(f, s) == IF f = "normalise" THEN normalise(s) ELSE safe_name(s)

NormInit ==
    /\ arg \in StringsUpTo(NormAlphabet, MaxTextLen)
    /\ fn \in Normalisers
    /\ once = None /\ twice = None /\ npc = "call"
    /\ PipeIdle /\ AliasIdle /\ LeagueIdle /\ InfoIdle /\ MatchIdle

CallNormaliser ==
    /\ npc = "call"
    /\ once' = Apply(fn, arg)
    /\ npc' = "again"
    /\ UNCHANGED <<arg, fn, twice, pipeVars, aliasVars, leagueVars, infoVars, matchVars>>

CallNormaliserAgain ==
    /\ npc = "again"
    /\ twice' = Apply(fn, once)
    /\ npc' = "done"
    /\ UNCHANGED <<arg, fn, once, pipeVars, aliasVars, leagueVars, infoVars, matchVars>>

NormNext == CallNormaliser \/ CallNormaliserAgain

SpecNormalise == NormInit /\ [][NormNext]_vars

\* a str of lower-case letters, digits and "_" that neither starts nor ends
\* with "_"
IsKey(s) ==
    /\ \A i \in 1..Len(s) : IsAsciiLowerOrDigit(s[i]) \/ s[i] = "_"
    /\ s # <<>> => (s[1] # "_" /\ s[Len(s)] # "_")

\* C11: normalise and safe_name return a string for every argument, the
\* empty string for an argument of punctuation, whitespace and "_" only, and
\* applied to their own result they return it unchanged.
C11_IdempotentTotal ==
    /\ npc \in {"again", "done"} =>
         /\ IsKey(once)
         /\ Range(arg) \subseteq {"_", "-", " ", "U+0009", "U+00A0"} => once = <<>>
    /\ npc = "done" => twice = once

\* normalise of "_ B" is "b", and so is normalise of "b"
C11_Witness ==
    /\ npc = "done" /\ fn = "normalise"
    /\ arg = <<"_", " ", "B">>
    /\ once = <<"b">> /\ twice = <<"b">>

=============================================================================

